---- MODULE Spec2Model ----
(***************************************************************************)
(* Model of telegram_webhook_server.py: the trade-level calculation        *)
(* (calculate_trade_levels) and the /webhook request handler.              *)
(*                                                                         *)
(* Prices are fixed-point integers in units of 0.005 (1/200), so that both *)
(* the price grid of the inputs (multiples of 0.125, exactly representable *)
(* as binary floats) and the results of round(x, 2) (multiples of 0.01)    *)
(* are integers.  On that grid every float operation of the source is      *)
(* exact, and round(x, 2) is round-half-to-even on the cents.              *)
(***************************************************************************)
EXTENDS Integers, Sequences, FiniteSets, TLC

\* ---------------------------------------------------------------- bounds
\* Input prices range over 0, 0.125, ..., MaxTick * 0.125.
MaxTick == 3
\* Payload prices of the server range over 0, 0.125, ..., MaxWebTick * 0.125.
MaxWebTick == 2

\* ------------------------------------------------------------- constants
TICK_SIZE == 50       \* 0.25
Step == TICK_SIZE \div 2      \* 0.125: the grid of the input prices
Cent == 2             \* 0.01
DefaultBar == 400     \* the 2 of price + 2 / price - 2

\* ------------------------------------------------- JSON / Python values
\* A value is a number, None, a non-numeric non-empty string, or absent
\* from the dict ("missing").
Num(n) == [t |-> "num", v |-> n]
None == [t |-> "none", v |-> 0]
Str == [t |-> "str", v |-> 0]
Missing == [t |-> "missing", v |-> 0]

Nums == {Step * k : k \in 0..MaxTick}
NumValues == {Num(n) : n \in Nums}

\* dict.get(key, default); dict.get(key) is dict_get(d, k, None)
dict_get(d, k, default) == IF d[k].t = "missing" THEN default ELSE d[k]

\* Python truthiness of a value: 0 and None are falsy
Truthy(x) ==
    CASE x.t = "num" -> x.v # 0
      [] x.t = "str" -> TRUE
      [] OTHER -> FALSE

IsNum(x) == x.t = "num"

\* round(x, 2) on an exactly representable x: nearest cent, ties to even
Round2(x) ==
    IF x % Cent = 0 THEN x
    ELSE IF (x + 1) % (2 * Cent) = 0 THEN x + 1 ELSE x - 1

\* ------------------------------------------------ calculate_trade_levels
Keys == {"high", "low", "vah", "poc", "val"}

\* sl = current_data.get('low', entry_price) - TICK_SIZE   (LONG)
\* sl = current_data.get('high', entry_price) + TICK_SIZE  (SHORT)
\* The operand of the subtraction / addition; raises when it is no number.
StopBase(direction, entry_price, current_data) ==
    IF direction = "LONG"
    THEN dict_get(current_data, "low", Num(entry_price))
    ELSE dict_get(current_data, "high", Num(entry_price))

\* mutant: the stop is taken from the entry price instead of the bar
StopLoss_FromEntry(direction, entry_price, current_data) ==
    IF direction = "LONG"
    THEN entry_price - TICK_SIZE
    ELSE entry_price + TICK_SIZE

StopLoss(direction, entry_price, current_data) ==
    IF direction = "LONG"
    THEN StopBase(direction, entry_price, current_data).v - TICK_SIZE
    ELSE StopBase(direction, entry_price, current_data).v + TICK_SIZE

Risk(direction, entry_price, sl) ==
    IF direction = "LONG" THEN entry_price - sl ELSE sl - entry_price

\* the second reference level: vah for LONG, val for SHORT
RefLevel(direction, current_data) ==
    IF direction = "LONG"
    THEN dict_get(current_data, "vah", None)
    ELSE dict_get(current_data, "val", None)

\* `poc and vah and poc > entry_price and vah > poc` (and its mirror) is
\* evaluated left to right with short circuit; a comparison against a
\* string raises TypeError.
CondRaises(direction, entry_price, poc, ref) ==
    /\ Truthy(poc)
    /\ Truthy(ref)
    /\ \/ ~IsNum(poc)
       \/ /\ IF direction = "LONG" THEN poc.v > entry_price
                                   ELSE poc.v < entry_price
          /\ ~IsNum(ref)

StructureCond(direction, entry_price, poc, ref) ==
    /\ Truthy(poc)
    /\ Truthy(ref)
    /\ IF direction = "LONG"
       THEN poc.v > entry_price /\ ref.v > poc.v
       ELSE poc.v < entry_price /\ ref.v < poc.v

\* mutant: the gate also rejects reward = risk
RRGate_NonStrict(reward, risk) == reward <= risk

\* `if reward < risk: return None, None, None`
RRGate(reward, risk) == reward < risk

NoFrame ==
    [raised |-> FALSE, sl |-> 0, risk |-> 0, structure |-> FALSE,
     tp1 |-> 0, tp2 |-> 0, reward |-> 0]

RaisedFrame == [NoFrame EXCEPT !.raised = TRUE]

\* The local variables of one execution of the try block.
Frame(direction, entry_price, current_data) ==
    IF ~IsNum(StopBase(direction, entry_price, current_data))
    THEN RaisedFrame
    ELSE
      LET sl == StopLoss(direction, entry_price, current_data)
          risk == Risk(direction, entry_price, sl)
          poc == dict_get(current_data, "poc", None)
          ref == RefLevel(direction, current_data)
      IN IF CondRaises(direction, entry_price, poc, ref)
         THEN RaisedFrame
         ELSE
           LET structure == StructureCond(direction, entry_price, poc, ref)
               tp1 == IF structure THEN poc.v
                      ELSE IF direction = "LONG"
                           THEN entry_price + risk * 2
                           ELSE entry_price - risk * 2
               tp2 == IF structure THEN ref.v
                      ELSE IF direction = "LONG"
                           THEN entry_price + risk * 4
                           ELSE entry_price - risk * 4
               reward == IF direction = "LONG" THEN tp1 - entry_price
                                               ELSE entry_price - tp1
           IN [raised |-> FALSE, sl |-> sl, risk |-> risk,
               structure |-> structure, tp1 |-> tp1, tp2 |-> tp2,
               reward |-> reward]

Rejection == <<None, None, None>>

\* The returned tuple.
Levels(f) ==
    IF f.raised \/ RRGate(f.reward, f.risk)
    THEN Rejection
    ELSE <<Num(Round2(f.sl)), Num(Round2(f.tp1)), Num(Round2(f.tp2))>>

\* mutant: no try/except, the exception leaves the function
calculate_trade_levels_NoCatch(direction, entry_price, current_data) ==
    [exc |-> Frame(direction, entry_price, current_data).raised,
     value |-> Levels(Frame(direction, entry_price, current_data))]

\* What the call does: exc is TRUE when an exception leaves the function
\* (never: the try/except catches every Exception), value is the tuple.
calculate_trade_levels(direction, entry_price, current_data) ==
    [exc |-> FALSE,
     value |-> Levels(Frame(direction, entry_price, current_data))]

\* ------------------------------------------------------------ the webhook
\* Message texts are sequences of characters.
UpperChar(c) ==
    CASE c = "b" -> "B" [] c = "u" -> "U" [] c = "y" -> "Y"
      [] c = "s" -> "S" [] c = "e" -> "E" [] c = "l" -> "L"
      [] c = "t" -> "T" [] c = "p" -> "P" [] c = "h" -> "H"
      [] c = "i" -> "I"
      [] OTHER -> c

\* str.upper()
Upper(s) == [i \in 1..Len(s) |-> UpperChar(s[i])]

\* `needle in hay` on strings
Contains(hay, needle) ==
    \E i \in 1..(Len(hay) - Len(needle) + 1) :
        SubSeq(hay, i, i + Len(needle) - 1) = needle

BUY == <<"B", "U", "Y">>
SELL == <<"S", "E", "L", "L">>
Keywords == {<<"T", "P", "1">>, <<"T", "P", "2">>, <<"B", "E">>, <<"S", "L">>}

\* any(keyword in alert_message for keyword in ['TP1', 'TP2', 'BE', 'SL'])
IsManagement(alert_message) ==
    \E keyword \in Keywords : Contains(alert_message, keyword)

\* direction derived from the message; "NONE" is Python's None
DetectDirection(alert_message) ==
    IF Contains(Upper(alert_message), BUY) THEN "LONG"
    ELSE IF Contains(Upper(alert_message), SELL) THEN "SHORT"
    ELSE "NONE"

Action(dir) == IF dir = "LONG" THEN "BUY" ELSE "SELL"

\* float(x): a number converts, None and a non-numeric string raise
FloatRaises(x) == ~IsNum(x)

\* the message field of the payload: a text, absent, or not a string
Text(s) == [t |-> "text", s |-> s]
MissingText == [t |-> "missing", s |-> <<>>]
NotText == [t |-> "num", s |-> <<>>]

\* round(a / b, 1) for b > 0, in tenths: nearest tenth, ties to even
RoundDiv1(a, b) ==
    LET n == (10 * a) \div b
        r == 10 * a - n * b
    IN IF 2 * r < b THEN n
       ELSE IF 2 * r > b THEN n + 1
       ELSE IF n % 2 = 0 THEN n ELSE n + 1

\* rr = round(reward_tp2 / risk, 1) if risk > 0 else 0
RiskReward(dir, price, sl, tp2) ==
    LET risk == IF dir = "LONG" THEN price - sl ELSE sl - price
        reward_tp2 == IF dir = "LONG" THEN tp2 - price ELSE price - tp2
    IN IF risk > 0 THEN RoundDiv1(reward_tp2, risk) ELSE 0

Response(status, type, code, detail, levels) ==
    [status |-> status, type |-> type, code |-> code, detail |-> detail,
     levels |-> levels]

NoResponse == Response("", "", 0, "", <<>>)

\* the except clause of the handler: {'status': 'error', 'message': str(e)}
ErrorResponse(what) == Response("error", "", 500, what, <<>>)

\* one bot.send_message(TELEGRAM_CHAT_ID, text[, parse_mode='HTML']) call
SendRaw(alert_message, delivery) ==
    [body |-> alert_message, parse_mode |-> "", action |-> "",
     levels |-> <<>>, delivered |-> (delivery = "ok")]

SendEntry(dir, levels, delivery) ==
    [body |-> <<>>, parse_mode |-> "HTML", action |-> Action(dir),
     levels |-> <<levels>>, delivered |-> (delivery = "ok")]

\* current_data = {'high': data.get('high', price + 2), ...}
CurrentData(data, price) ==
    [k \in Keys |->
        CASE k = "high" -> dict_get(data, "high", Num(price + DefaultBar))
          [] k = "low" -> dict_get(data, "low", Num(price - DefaultBar))
          [] OTHER -> dict_get(data, k, None)]

CallRecord(dir, price, cd, r) ==
    [direction |-> dir, entry_price |-> price, current_data |-> cd,
     raised |-> Frame(dir, price, cd).raised, exc |-> r.exc,
     value |-> r.value]

Outcome(resp, snd, cls) == [response |-> resp, sends |-> snd, calls |-> cls]

\* mutant: a failed send is swallowed and the request answered as sent
Deliver_Swallow(snd, ok, cls) == Outcome(ok, <<snd>>, cls)

\* mutant: a failed send is attempted a second time
Deliver_Retry(snd, ok, cls) ==
    IF snd.delivered
    THEN Outcome(ok, <<snd>>, cls)
    ELSE Outcome(ok, <<snd, [snd EXCEPT !.delivered = TRUE]>>, cls)

\* bot.send_message(...) followed by `return jsonify(ok), 200`: when the
\* call raises, control goes to the except clause of the handler
Deliver(snd, ok, cls) ==
    IF snd.delivered
    THEN Outcome(ok, <<snd>>, cls)
    ELSE Outcome(ErrorResponse("send_message"), <<snd>>, cls)

\* mutant: `if direction:` is tested before the management keywords
Dispatch_EntryFirst(alert_message, dir) ==
    IF dir # "NONE" THEN "entry"
    ELSE IF IsManagement(alert_message) THEN "management"
    ELSE "unknown"

\* the order of the tests in the handler: the management keywords first,
\* then `if direction:`, then the unknown alert
Dispatch(alert_message, dir) ==
    IF IsManagement(alert_message) THEN "management"
    ELSE IF dir # "NONE" THEN "entry"
    ELSE "unknown"

\* the entry branch: `if direction:` ... `return jsonify({... 'entry' ...})`
HandleEntry(data, dir, price, delivery) ==
    LET cd == CurrentData(data, price)
        r == calculate_trade_levels(dir, price, cd)
        cls == <<CallRecord(dir, price, cd, r)>>
    IN IF r.exc
       THEN Outcome(ErrorResponse("calculate"), <<>>, cls)
       ELSE IF r.value[1] = None
       THEN Outcome(Response("rejected", "", 200, "RR < 1:1", <<>>),
                    <<>>, cls)
       ELSE
         LET sl == r.value[1].v
             tp1 == r.value[2].v
             tp2 == r.value[3].v
             levels == [entry |-> price, sl |-> sl, tp1 |-> tp1,
                        tp2 |-> tp2, rr |-> RiskReward(dir, price, sl, tp2)]
         IN Deliver(SendEntry(dir, levels, delivery),
                    Response("success", "entry", 200, "", <<levels>>), cls)

\* the body of webhook(): what one request does, given whether a
\* bot.send_message call it makes returns ("ok") or raises ("raise")
Handle(data, delivery) ==
    LET close == dict_get(data, "close", Num(0))
        alert_message == IF data.message.t = "missing" THEN Text(<<>>)
                         ELSE data.message
    IN IF FloatRaises(close)
       THEN Outcome(ErrorResponse("float"), <<>>, <<>>)
       ELSE IF alert_message.t # "text"
       THEN Outcome(ErrorResponse("upper"), <<>>, <<>>)
       ELSE
         LET price == close.v
             dir == DetectDirection(alert_message.s)
             branch == Dispatch(alert_message.s, dir)
         IN CASE branch = "management" ->
                   Deliver(SendRaw(alert_message.s, delivery),
                           Response("success", "management", 200, "", <<>>),
                           <<>>)
              [] branch = "entry" ->
                   HandleEntry(data, dir, price, delivery)
              [] OTHER ->
                   Outcome(Response("unknown_alert", "", 400, "", <<>>),
                           <<>>, <<>>)

\* ------------------------------------------------------------- variables
VARIABLES
    cpc,            \* calculator: "ready" (inputs drawn) or "returned"
    direction,      \* calculator: argument
    entry_price,    \* calculator: argument
    current_data,   \* calculator: argument
    frame,          \* calculator: the locals of the call
    result,         \* calculator: [exc, value] of the call
    pc,             \* server: "idle" or "responded"
    request,        \* server: the JSON payload of the request
    response,       \* server: the JSON body and HTTP code answered
    sends,          \* server: the bot.send_message calls of the request
    calls           \* server: the calculate_trade_levels calls of the request

cvars == <<cpc, direction, entry_price, current_data, frame, result>>
wvars == <<pc, request, response, sends, calls>>
vars == <<cpc, direction, entry_price, current_data, frame, result,
          pc, request, response, sends, calls>>

\* ------------------------------------------- calculator as pure function
Values == {Missing, None, Str} \cup NumValues
Directions == {"LONG", "SHORT"}
NoResult == [exc |-> FALSE, value |-> <<>>]

NoRequest ==
    [close |-> Missing, high |-> Missing, low |-> Missing, vah |-> Missing,
     poc |-> Missing, val |-> Missing, message |-> MissingText]

InitCalc ==
    /\ cpc = "ready"
    /\ direction \in Directions
    /\ entry_price \in Nums
    /\ current_data \in [Keys -> Values]
    /\ frame = NoFrame
    /\ result = NoResult
    /\ pc = "idle"
    /\ request = NoRequest
    /\ response = NoResponse
    /\ sends = <<>>
    /\ calls = <<>>

Call ==
    /\ cpc = "ready"
    /\ cpc' = "returned"
    /\ frame' = Frame(direction, entry_price, current_data)
    /\ result' = calculate_trade_levels(direction, entry_price, current_data)
    /\ UNCHANGED <<direction, entry_price, current_data>>
    /\ UNCHANGED wvars

NextCalc == Call

SpecCalc == InitCalc /\ [][NextCalc]_vars

\* ------------------------------------------------------------ the server
\* Payload fields: absent, a non-numeric string, or a number.  (A JSON null
\* behaves like the string for close/high/low and like an absent key for
\* vah/poc/val.)
WebNums == {Step * k : k \in 0..MaxWebTick}
WebValues == {Missing, Str} \cup {Num(n) : n \in WebNums}

Messages ==
    {<<>>,
     <<"h", "i">>,
     <<"B", "U", "Y">>,
     <<"b", "u", "y">>,
     <<"S", "E", "L", "L">>,
     <<"S", "e", "l", "l">>,
     <<"T", "P", "1">>,
     <<"t", "p", "1">>,
     <<"T", "P", "2">>,
     <<"B", "E">>,
     <<"S", "L">>,
     <<"B", "U", "Y", " ", "T", "P", "1">>,
     <<"s", "e", "l", "l", " ", "S", "L">>}

MessageValues == {MissingText, NotText} \cup {Text(s) : s \in Messages}

Payloads ==
    [close : WebValues, high : WebValues, low : WebValues,
     vah : WebValues, poc : WebValues, val : WebValues,
     message : MessageValues]

Init ==
    /\ pc = "idle"
    /\ request = NoRequest
    /\ response = NoResponse
    /\ sends = <<>>
    /\ calls = <<>>
    /\ cpc = "returned"
    /\ direction = "LONG"
    /\ entry_price = 0
    /\ current_data = [k \in Keys |-> Missing]
    /\ frame = NoFrame
    /\ result = NoResult

\* POST /webhook: one request handled from its first line to its return
Webhook ==
    /\ pc = "idle"
    /\ \E data \in Payloads, delivery \in {"ok", "raise"} :
         \E out \in {Handle(data, delivery)} :
            /\ request' = data
            /\ response' = out.response
            /\ sends' = out.sends
            /\ calls' = out.calls
    /\ pc' = "responded"
    /\ UNCHANGED cvars

\* the server waits for the next request; a request keeps no state
NextRequest ==
    /\ pc = "responded"
    /\ pc' = "idle"
    /\ request' = NoRequest
    /\ response' = NoResponse
    /\ sends' = <<>>
    /\ calls' = <<>>
    /\ UNCHANGED cvars

Next == Webhook \/ NextRequest

Spec == Init /\ [][Next]_vars

\* ============================================================ properties
\* ----------------------------------------------- calculate_trade_levels
Returned == cpc = "returned"
Accepted == Returned /\ result.value # Rejection

\* the bar extreme the call was given: low for LONG, high for SHORT
Bar == IF direction = "LONG" THEN current_data["low"] ELSE current_data["high"]
BarOrEntry == IF Bar.t = "missing" THEN Num(entry_price) ELSE Bar

\* risk as the specification defines it, from the inputs alone
SpecRisk ==
    IF direction = "LONG" THEN entry_price - (BarOrEntry.v - 50)
    ELSE (BarOrEntry.v + 50) - entry_price

Poc == current_data["poc"]
Ref == IF direction = "LONG" THEN current_data["vah"] ELSE current_data["val"]

\* both reference levels are provided as numbers and are ordered
SpecStructure ==
    /\ Poc.t = "num"
    /\ Ref.t = "num"
    /\ IF direction = "LONG"
       THEN Poc.v > entry_price /\ Ref.v > Poc.v
       ELSE Poc.v < entry_price /\ Ref.v < Poc.v

\* C1: a call whose risk is <= 0 returns the rejection (None, None, None),
\* whatever the other inputs are.
C1_NonPositiveRiskRejected ==
    (Returned /\ BarOrEntry.t = "num" /\ SpecRisk <= 0)
        => result.value = Rejection

\* C2: a call that reaches the gate is rejected if and only if target1's
\* reward (LONG: tp1 - entry, SHORT: entry - tp1) is strictly less than
\* risk; reward = risk is accepted.
C2_RejectedIffRewardBelowRisk ==
    (Returned /\ ~frame.raised) =>
        LET reward == IF direction = "LONG" THEN frame.tp1 - entry_price
                                            ELSE entry_price - frame.tp1
        IN (result.value = Rejection) <=> (reward < SpecRisk)

\* C2 witness: the boundary reward = risk > 0 on structure-based targets,
\* accepted
C2_Witness ==
    /\ Accepted
    /\ frame.structure
    /\ frame.risk > 0
    /\ frame.reward = frame.risk
    /\ frame.tp1 = Poc.v

\* C3: structure-based targets (tp1 = poc, tp2 = vah or val) are used if
\* and only if both reference levels are provided and ordered, a provided
\* level of value 0 included; otherwise the 2:1 / 4:1 fallback is used.
C3_StructureIffOrdered ==
    (Returned /\ ~frame.raised) =>
        IF SpecStructure
        THEN frame.tp1 = Poc.v /\ frame.tp2 = Ref.v
        ELSE IF direction = "LONG"
             THEN /\ frame.tp1 = entry_price + 2 * SpecRisk
                  /\ frame.tp2 = entry_price + 4 * SpecRisk
             ELSE /\ frame.tp1 = entry_price - 2 * SpecRisk
                  /\ frame.tp2 = entry_price - 4 * SpecRisk

\* C4: when levels are returned and the bar's low (LONG) or high (SHORT) is
\* supplied, the stop is low - 0.25 or high + 0.25 rounded to 2 decimals,
\* a function of the bar alone.
C4_StopFromBar ==
    (Accepted /\ Bar.t # "missing") =>
        result.value[1] =
            Num(Round2(IF direction = "LONG" THEN Bar.v - 50 ELSE Bar.v + 50))

\* C4 witness: accepted structure-based LONG levels whose bar low differs
\* from the entry and whose stop is changed by the rounding
C4_Witness ==
    /\ Accepted
    /\ direction = "LONG"
    /\ Bar.t = "num"
    /\ Bar.v # entry_price
    /\ frame.structure
    /\ result.value[1].v # Bar.v - 50

\* C10: every accepted result is ordered: LONG stop < entry < target1 <=
\* target2, SHORT target2 <= target1 < entry < stop.
C10_AcceptedLevelsOrdered ==
    Accepted =>
        LET sl == result.value[1].v
            tp1 == result.value[2].v
            tp2 == result.value[3].v
        IN IF direction = "LONG"
           THEN sl < entry_price /\ entry_price < tp1 /\ tp1 <= tp2
           ELSE tp2 <= tp1 /\ tp1 < entry_price /\ entry_price < sl

\* ----------------------------------------------------------- the webhook
Responded == pc = "responded"
IsText == request.message.t = "text"
MessageText == request.message.s

\* the request gets past float(data.get('close', 0))
CloseConverts == request.close.t \in {"num", "missing"}

ManagementResponse == Response("success", "management", 200, "", <<>>)

\* C5 as stated: a request whose message contains a management keyword is
\* forwarded as-is, answered {status: success, type: management}, and never
\* reaches calculate_trade_levels, also when the message contains BUY or
\* SELL.  (Read for the requests that get as far as the keyword test.)
C5_ManagementAlwaysSuccess ==
    (Responded /\ IsText /\ IsManagement(MessageText) /\ CloseConverts) =>
        /\ Len(sends) = 1
        /\ sends[1].body = MessageText
        /\ response = ManagementResponse
        /\ calls = <<>>

\* C5 amended: for a request whose close converts to a number and whose
\* message contains a management keyword, the message is handed as-is to
\* exactly one send attempt and calculate_trade_levels is never invoked,
\* also when the message contains BUY or SELL; the response is
\* {status: success, type: management} when the send returns and
\* {status: error} with HTTP 500 when it raises.
C5_ManagementPrecedence ==
    (Responded /\ IsText /\ IsManagement(MessageText) /\ CloseConverts) =>
        /\ calls = <<>>
        /\ Len(sends) = 1
        /\ sends[1].body = MessageText
        /\ sends[1].parse_mode = ""
        /\ sends[1].delivered => response = ManagementResponse
        /\ ~sends[1].delivered =>
               (response.status = "error" /\ response.code = 500)

\* C5 witness: a message with both BUY and a management keyword, delivered
C5_Witness ==
    /\ Responded
    /\ IsText
    /\ IsManagement(MessageText)
    /\ DetectDirection(MessageText) = "LONG"
    /\ Len(sends) = 1
    /\ sends[1].delivered
    /\ response = ManagementResponse

\* C6: a message that contains a management keyword in any letter case is
\* answered as its upper-case form is: one send attempt and, unless the
\* request ends in an error, type management.
C6_KeywordsCaseInsensitive ==
    (Responded /\ IsText /\ IsManagement(Upper(MessageText))
        /\ response.status # "error") =>
        /\ Len(sends) = 1
        /\ response = ManagementResponse

\* C7: an exception raised inside the level computation is caught inside
\* calculate_trade_levels and returned as (None, None, None); the webhook
\* answers rejected with HTTP 200, not error 500, and sends nothing.
C7_ExceptionsAreRejections ==
    (Responded /\ calls # <<>> /\ calls[1].raised) =>
        /\ ~calls[1].exc
        /\ calls[1].value = Rejection
        /\ response.status = "rejected"
        /\ response.code = 200
        /\ sends = <<>>

\* C7 witness: an entry request with a non-numeric bar low, rejected
C7_Witness ==
    /\ Responded
    /\ calls # <<>>
    /\ calls[1].raised
    /\ calls[1].direction = "LONG"
    /\ request.low.t = "str"
    /\ response.status = "rejected"

\* C8: when the notification send raises, on the management path or on the
\* entry path, there is no second attempt and the answer is status error
\* with HTTP 500; no success response without a delivered notification.
C8_SendFailureIsError ==
    Responded =>
        /\ \A i \in 1..Len(sends) :
               ~sends[i].delivered =>
                   /\ Len(sends) = 1
                   /\ response.status = "error"
                   /\ response.code = 500
        /\ response.status = "success" =>
               \E i \in 1..Len(sends) : sends[i].delivered

\* C8 witness: an entry request whose levels were computed and whose send
\* raised
C8_Witness ==
    /\ Responded
    /\ calls # <<>>
    /\ Len(sends) = 1
    /\ ~sends[1].delivered
    /\ sends[1].parse_mode = "HTML"
    /\ response.code = 500

\* C9: a request makes at most one send attempt; rejected and unknown_alert
\* (HTTP 400, neither BUY/SELL nor a management keyword in the message) are
\* answered without a send attempt; a success response has exactly one.
C9_AtMostOneSend ==
    Responded =>
        /\ Len(sends) <= 1
        /\ response.status \in {"rejected", "unknown_alert"} => sends = <<>>
        /\ response.status = "unknown_alert" =>
               /\ response.code = 400
               /\ DetectDirection(MessageText) = "NONE"
               /\ ~IsManagement(MessageText)
        /\ response.status = "success" => Len(sends) = 1

\* C9 witness: an unknown alert, answered 400 with nothing sent
C9_Witness ==
    /\ Responded
    /\ response.status = "unknown_alert"
    /\ response.code = 400
    /\ sends = <<>>
    /\ IsText
    /\ Len(MessageText) > 0

====
